---- MODULE Spec2Model ----
(***************************************************************************)
(* Model of JioSaavn/_syncFetch.py: the six synchronous public functions   *)
(* searchSong, searchAlbum, song, album, playlist and lyrics.              *)
(*                                                                         *)
(* Every public function is one action.  The action evaluates the body of  *)
(* the function in source order against the current backend and records    *)
(* the arguments of the call, its outcome (returned value or raised        *)
(* error) and the HTTP requests it issued, in the order it issued them,    *)
(* each with the reply it got.                                             *)
(*                                                                         *)
(* The modules _syncFetch.py imports (__syncrequests, __baseApiUrl,        *)
(* __syncparse, __validation, __helper, __constants) are not part of the   *)
(* sources at hand; their operators are modelled from the specification.   *)
(***************************************************************************)
EXTENDS Integers, Sequences, FiniteSets, TLC

VARIABLES backend, call, outcome, requests

vars == <<backend, call, outcome, requests>>

\* ------------------------------------------------------------------ bounds
MaxNeg == 1         \* page and limit go down to -MaxNeg
MaxPage == 2        \* largest page passed to searchSong
MaxSmall == 2       \* largest "small" limit passed to searchSong
MaxOver == 1        \* how far above the limit bound the limits go

\* ------------------------------------------------------- program constants
LimitBound == 30    \* Field(gt=0, lt=30) on limit
PageFloor == 0      \* Field(gt=0) on page
LimitFloor == 0     \* Field(gt=0, lt=30) on limit

\* ------------------------------------------------------------- the values
None == "<None>"    \* Python's None
Empty == ""         \* the empty string

SongUrl == "https://www.jiosaavn.com/song/alone/OykxHSA0"
AlbumUrl == "https://www.jiosaavn.com/album/alone/FDmH5Pxt"
PlaylistUrl == "https://www.jiosaavn.com/s/playlist/88063878/90s_Love/OykxHSA0"
BadUrl == "https://example.com/not-an-album"

Urls == {None, Empty, BadUrl, SongUrl, AlbumUrl, PlaylistUrl}
Ids == {"a", "b"}
IdArgs == {None, Empty} \cup Ids
Queries == {"alone"}
Modes == {"json", "raw", "xml"}
IntArgs == (-MaxNeg)..MaxPage
LimitArgs == ((-MaxNeg)..MaxSmall) \cup ((LimitBound - 1)..(LimitBound + MaxOver))

\* Truthiness replaced by an "is not None" test: "" counts as supplied.
Truthy_isNotNone(x) == x # None

\* Python truthiness of an Optional[str] argument: None and "" are falsy.
Truthy(x) == x # None /\ x # Empty

\* The result of a call or of a fetch: a value, or a raised error.
Ok(v) == [ok |-> TRUE, value |-> v]
Raise(e) == [ok |-> FALSE, err |-> e]

\* What evaluating a function body yields: its outcome and the requests issued.
Done(out, reqs) == [out |-> out, reqs |-> reqs]

\* ------------------------------------------------------------ the backend
NoPattern == "<no id>"
Variants == {"exact", "all", "missing"}

Backends == [page : Ids \cup {NoPattern},
             textUp : BOOLEAN,
             jsonUp : BOOLEAN,
             variant : Variants]

\* The raw backend record of one song.
SongRaw(i) == [id |-> i, song |-> "Alone", perma_url |-> SongUrl, has_lyrics |-> "true"]

\* The raw backend reply to a lyrics request.
LyricsRaw(b) ==
  IF b.variant = "missing"
  THEN [status |-> "failure"]
  ELSE [status |-> "success", lyrics |-> "la la", lyrics_copyright |-> "c", snippet |-> "la",
        script_tracking_url |-> "t"]

\* The JSON document the backend serves for a request URL.
BackendJson(u, b) ==
  CASE u.call = "song.getDetails" ->
         IF b.variant = "exact" THEN (u.pids :> SongRaw(u.pids))
         ELSE IF b.variant = "all" THEN [i \in Ids |-> SongRaw(i)]
         ELSE ("zz" :> SongRaw("zz"))
    [] u.call = "lyrics.getLyrics" -> LyricsRaw(b)
    [] u.call = "content.getAlbumDetails" ->
         [albumid |-> u.albumid, title |-> b.variant, songs |-> <<SongRaw("a")>>]
    [] u.call = "playlist.getDetails" ->
         [listid |-> u.listid, listname |-> b.variant, songs |-> <<SongRaw("b")>>]
    [] u.call = "search.getResults" ->
         [total |-> b.variant, start |-> u.p, results |-> <<SongRaw("a")>>]
    [] u.call = "autocomplete.get" ->
         [albums |-> [data |-> <<[id |-> "a", title |-> u.query, more_info |-> b.variant]>>]]

\* The text of the page the backend serves for a page URL.
BackendPage(url, b) ==
  IF b.page = NoPattern THEN [html |-> url]
  ELSE IF url = SongUrl THEN [html |-> url, pid |-> b.page]
  ELSE IF url = AlbumUrl THEN [html |-> url, album_id |-> b.page]
  ELSE [html |-> url, playlist_id |-> b.page]

\* ------------------------------------------------- __constants.Response
Response == {"json", "raw"}

\* ------------------------------------------------- __baseApiUrl builders
songsearchFromSTRING(query, p, n) == [call |-> "search.getResults", q |-> query, p |-> p, n |-> n]
albumsearchFromSTRING(query) == [call |-> "autocomplete.get", query |-> query]
songFromID(id) == [call |-> "song.getDetails", pids |-> id]
albumFromID(id) == [call |-> "content.getAlbumDetails", albumid |-> id]
playlistFromID(id) == [call |-> "playlist.getDetails", listid |-> id]
lyricsFromID(id) == [call |-> "lyrics.getLyrics", lyrics_id |-> id]

\* ------------------------------------------------- __syncrequests fetchers
getjSON(url, b) ==
  IF b.jsonUp THEN Ok(BackendJson(url, b)) ELSE Raise("TransportError")

getText(url, b) ==
  IF b.textUp THEN Ok(BackendPage(url, b)) ELSE Raise("TransportError")

\* The log entries of the two kinds of request.
JsonReq(url, reply) == [kind |-> "json", url |-> url, reply |-> reply]
TextReq(url, data, reply) == [kind |-> "text", url |-> url, data |-> data, reply |-> reply]

\* ------------------------------------------------- __validation predicates
isSongUrl(url) == url = SongUrl
isAlbumUrl(url) == url = AlbumUrl
isPlaylistUrl(url) == url = PlaylistUrl

\* ------------------------------------------------- __helper extractors
getSongId(text) ==
  IF "pid" \in DOMAIN text THEN Ok(text.pid) ELSE Raise("ExtractionError")
getAlbumId(text) ==
  IF "album_id" \in DOMAIN text THEN Ok(text.album_id) ELSE Raise("ExtractionError")
getPlaylistId(text) ==
  IF "playlist_id" \in DOMAIN text THEN Ok(text.playlist_id) ELSE Raise("ExtractionError")

\* ------------------------------------------------- __syncparse normalizers
\* The reduced song record; with lyrics requested, one more lyrics fetch is
\* merged into it.
makeSongResponse(song, lyrics, b) ==
  LET base == [id |-> song.id, title |-> song.song, url |-> song.perma_url]
      u == lyricsFromID(song.id)
      r == getjSON(u, b)
  IN IF ~lyrics THEN Done(Ok(base @@ ("lyrics" :> None)), <<>>)
     ELSE IF ~r.ok THEN Done(Raise(r.err), <<JsonReq(u, r)>>)
     ELSE IF r.value.status = "failure"
          THEN Done(Ok(base @@ ("lyrics" :> None)), <<JsonReq(u, r)>>)
          ELSE Done(Ok(base @@ ("lyrics" :> r.value.lyrics)), <<JsonReq(u, r)>>)

makeSearchResponse(data, b) ==
  LET n == makeSongResponse(data.results[1], FALSE, b)
  IN Done(Ok(<<n.out.value>>), n.reqs)

makeAlbumSearchResponse(data) ==
  Done(Ok(<<[id |-> data.albums.data[1].id, title |-> data.albums.data[1].title]>>), <<>>)

makeAlbumResponse(data, lyrics, b) ==
  LET n == makeSongResponse(data.songs[1], lyrics, b)
  IN IF ~n.out.ok THEN n
     ELSE Done(Ok([albumId |-> data.albumid, title |-> data.title, songs |-> <<n.out.value>>]),
               n.reqs)

makePlaylistResponse(data, lyrics, b) ==
  LET n == makeSongResponse(data.songs[1], lyrics, b)
  IN IF ~n.out.ok THEN n
     ELSE Done(Ok([listId |-> data.listid, listname |-> data.listname, songs |-> <<n.out.value>>]),
               n.reqs)

\* ------------------------------------------------- the public functions
\* The limit bound written le=30 in place of lt=30.
searchSongArgs_le(page, limit) == page > PageFloor /\ limit > LimitFloor /\ limit <= LimitBound

\* @validate_arguments on searchSong: page > 0 and 0 < limit < 30, checked by
\* pydantic before the body runs (pydantic's error is its ValidationError).
searchSongArgs(page, limit) == page > PageFloor /\ limit > LimitFloor /\ limit < LimitBound

searchSong(query, page, limit, response, b) ==
  LET u == songsearchFromSTRING(query, page, limit)
      r == getjSON(u, b)
      reqs == <<JsonReq(u, r)>>
  IN IF ~searchSongArgs(page, limit) THEN Done(Raise("ValidationError"), <<>>)
     ELSE IF response \notin Response THEN Done(Raise("AssertionError"), <<>>)
     ELSE IF ~r.ok THEN Done(Raise(r.err), reqs)
     ELSE IF response = "raw" THEN Done(Ok(r.value), reqs)
     ELSE LET n == makeSearchResponse(r.value, b) IN Done(n.out, reqs \o n.reqs)

searchAlbum(query, response, b) ==
  LET u == albumsearchFromSTRING(query)
      r == getjSON(u, b)
      reqs == <<JsonReq(u, r)>>
  IN IF response \notin Response THEN Done(Raise("AssertionError"), <<>>)
     ELSE IF ~r.ok THEN Done(Raise(r.err), reqs)
     ELSE IF response = "raw" THEN Done(Ok(r.value), reqs)
     ELSE LET n == makeAlbumSearchResponse(r.value) IN Done(n.out, reqs \o n.reqs)

\* song keeping the caller's id when one is given (id = id or getSongId(...)).
song_keepCallerId(url, id, lyrics, response, b) ==
  LET rest(sid, reqs) ==
        LET u == songFromID(sid)
            r == getjSON(u, b)
            reqs2 == Append(reqs, JsonReq(u, r))
        IN IF response \notin Response THEN Done(Raise("AssertionError"), reqs)
           ELSE IF ~r.ok THEN Done(Raise(r.err), reqs2)
           ELSE IF response = "raw" THEN Done(Ok(r.value), reqs2)
           ELSE IF sid \notin DOMAIN r.value THEN Done(Raise("KeyError"), reqs2)
           ELSE LET n == makeSongResponse(r.value[sid], lyrics, b)
                IN Done(n.out, reqs2 \o n.reqs)
      t == getText(url, b)
      treq == <<TextReq(url, <<"bitrate", "320">>, t)>>
  IN IF ~(Truthy(url) \/ Truthy(id)) THEN Done(Raise("ValidationError"), <<>>)
     ELSE IF ~Truthy(url) THEN rest(id, <<>>)
     ELSE IF ~isSongUrl(url) THEN Done(Raise("InvalidURL"), <<>>)
     ELSE IF ~t.ok THEN Done(Raise(t.err), treq)
     ELSE IF ~getSongId(t.value).ok THEN Done(Raise(getSongId(t.value).err), treq)
     ELSE rest(IF Truthy(id) THEN id ELSE getSongId(t.value).value, treq)

song(url, id, lyrics, response, b) ==
  LET rest(sid, reqs) ==
        LET u == songFromID(sid)
            r == getjSON(u, b)
            reqs2 == Append(reqs, JsonReq(u, r))
        IN IF response \notin Response THEN Done(Raise("AssertionError"), reqs)
           ELSE IF ~r.ok THEN Done(Raise(r.err), reqs2)
           ELSE IF response = "raw" THEN Done(Ok(r.value), reqs2)
           ELSE IF sid \notin DOMAIN r.value THEN Done(Raise("KeyError"), reqs2)
           ELSE LET n == makeSongResponse(r.value[sid], lyrics, b)
                IN Done(n.out, reqs2 \o n.reqs)
      t == getText(url, b)
      treq == <<TextReq(url, <<"bitrate", "320">>, t)>>
  IN IF ~(Truthy(url) \/ Truthy(id)) THEN Done(Raise("ValidationError"), <<>>)
     ELSE IF ~Truthy(url) THEN rest(id, <<>>)
     ELSE IF ~isSongUrl(url) THEN Done(Raise("InvalidURL"), <<>>)
     ELSE IF ~t.ok THEN Done(Raise(t.err), treq)
     ELSE IF ~getSongId(t.value).ok THEN Done(Raise(getSongId(t.value).err), treq)
     ELSE rest(getSongId(t.value).value, treq)

\* album taking the id branch whenever an id is given, before the url is looked at.
album_idFirst(url, id, lyrics, response, b) ==
  LET rest(aid, reqs) ==
        LET u == albumFromID(aid)
            r == getjSON(u, b)
            reqs2 == Append(reqs, JsonReq(u, r))
        IN IF response \notin Response THEN Done(Raise("AssertionError"), reqs)
           ELSE IF ~r.ok THEN Done(Raise(r.err), reqs2)
           ELSE IF response = "raw" THEN Done(Ok(r.value), reqs2)
           ELSE LET n == makeAlbumResponse(r.value, lyrics, b)
                IN Done(n.out, reqs2 \o n.reqs)
      t == getText(url, b)
      treq == <<TextReq(url, <<>>, t)>>
  IN IF ~(Truthy(url) \/ Truthy(id)) THEN Done(Raise("ValidationError"), <<>>)
     ELSE IF ~Truthy(url) \/ Truthy(id) THEN rest(id, <<>>)
     ELSE IF ~isAlbumUrl(url) THEN Done(Raise("InvalidURL"), <<>>)
     ELSE IF ~t.ok THEN Done(Raise(t.err), treq)
     ELSE IF ~getAlbumId(t.value).ok THEN Done(Raise(getAlbumId(t.value).err), treq)
     ELSE rest(getAlbumId(t.value).value, treq)

album(url, id, lyrics, response, b) ==
  LET rest(aid, reqs) ==
        LET u == albumFromID(aid)
            r == getjSON(u, b)
            reqs2 == Append(reqs, JsonReq(u, r))
        IN IF response \notin Response THEN Done(Raise("AssertionError"), reqs)
           ELSE IF ~r.ok THEN Done(Raise(r.err), reqs2)
           ELSE IF response = "raw" THEN Done(Ok(r.value), reqs2)
           ELSE LET n == makeAlbumResponse(r.value, lyrics, b)
                IN Done(n.out, reqs2 \o n.reqs)
      t == getText(url, b)
      treq == <<TextReq(url, <<>>, t)>>
  IN IF ~(Truthy(url) \/ Truthy(id)) THEN Done(Raise("ValidationError"), <<>>)
     ELSE IF ~Truthy(url) THEN rest(id, <<>>)
     ELSE IF ~isAlbumUrl(url) THEN Done(Raise("InvalidURL"), <<>>)
     ELSE IF ~t.ok THEN Done(Raise(t.err), treq)
     ELSE IF ~getAlbumId(t.value).ok THEN Done(Raise(getAlbumId(t.value).err), treq)
     ELSE rest(getAlbumId(t.value).value, treq)

\* playlist falling back on the caller's id when the page has no id.
playlist_fallbackToId(url, id, lyrics, response, b) ==
  LET rest(lid, reqs) ==
        LET u == playlistFromID(lid)
            r == getjSON(u, b)
            reqs2 == Append(reqs, JsonReq(u, r))
        IN IF response \notin Response THEN Done(Raise("AssertionError"), reqs)
           ELSE IF ~r.ok THEN Done(Raise(r.err), reqs2)
           ELSE IF response = "raw" THEN Done(Ok(r.value), reqs2)
           ELSE LET n == makePlaylistResponse(r.value, lyrics, b)
                IN Done(n.out, reqs2 \o n.reqs)
      t == getText(url, b)
      treq == <<TextReq(url, <<>>, t)>>
  IN IF ~(Truthy(url) \/ Truthy(id)) THEN Done(Raise("ValidationError"), <<>>)
     ELSE IF ~Truthy(url) THEN rest(id, <<>>)
     ELSE IF ~isPlaylistUrl(url) THEN Done(Raise("InvalidURL"), <<>>)
     ELSE IF ~t.ok THEN Done(Raise(t.err), treq)
     ELSE IF ~getPlaylistId(t.value).ok
          THEN IF Truthy(id) THEN rest(id, treq) ELSE Done(Raise(getPlaylistId(t.value).err), treq)
     ELSE rest(getPlaylistId(t.value).value, treq)

playlist(url, id, lyrics, response, b) ==
  LET rest(lid, reqs) ==
        LET u == playlistFromID(lid)
            r == getjSON(u, b)
            reqs2 == Append(reqs, JsonReq(u, r))
        IN IF response \notin Response THEN Done(Raise("AssertionError"), reqs)
           ELSE IF ~r.ok THEN Done(Raise(r.err), reqs2)
           ELSE IF response = "raw" THEN Done(Ok(r.value), reqs2)
           ELSE LET n == makePlaylistResponse(r.value, lyrics, b)
                IN Done(n.out, reqs2 \o n.reqs)
      t == getText(url, b)
      treq == <<TextReq(url, <<>>, t)>>
  IN IF ~(Truthy(url) \/ Truthy(id)) THEN Done(Raise("ValidationError"), <<>>)
     ELSE IF ~Truthy(url) THEN rest(id, <<>>)
     ELSE IF ~isPlaylistUrl(url) THEN Done(Raise("InvalidURL"), <<>>)
     ELSE IF ~t.ok THEN Done(Raise(t.err), treq)
     ELSE IF ~getPlaylistId(t.value).ok THEN Done(Raise(getPlaylistId(t.value).err), treq)
     ELSE rest(getPlaylistId(t.value).value, treq)

\* result.get(key): the value under key, or None.
Get(result, key) == IF key \in DOMAIN result THEN result[key] ELSE None

\* lyrics with the "failure" test placed before the raw-mode return.
lyrics_failureFirst(url, id, response, b) ==
  LET rest(sid, reqs) ==
        LET u == lyricsFromID(sid)
            r == getjSON(u, b)
            reqs2 == Append(reqs, JsonReq(u, r))
        IN IF response \notin Response THEN Done(Raise("AssertionError"), reqs)
           ELSE IF ~r.ok THEN Done(Raise(r.err), reqs2)
           ELSE IF Get(r.value, "status") = "failure"
                THEN Done(Ok([status |-> "no lyric"]), reqs2)
           ELSE IF response = "raw" THEN Done(Ok(r.value), reqs2)
                ELSE Done(Ok([lyrics |-> Get(r.value, "lyrics"),
                              lyrics_copyright |-> Get(r.value, "lyrics_copyright"),
                              snippet |-> Get(r.value, "snippet")]), reqs2)
      t == getText(url, b)
      treq == <<TextReq(url, <<"bitrate", "320">>, t)>>
  IN IF ~(Truthy(url) \/ Truthy(id)) THEN Done(Raise("ValidationError"), <<>>)
     ELSE IF ~Truthy(url) THEN rest(id, <<>>)
     ELSE IF ~isSongUrl(url) THEN Done(Raise("InvalidURL"), <<>>)
     ELSE IF ~t.ok THEN Done(Raise(t.err), treq)
     ELSE IF ~getSongId(t.value).ok THEN Done(Raise(getSongId(t.value).err), treq)
     ELSE rest(getSongId(t.value).value, treq)

\* lyrics without the "failure" test: the three fields are read from any reply.
lyrics_noSoftFailure(url, id, response, b) ==
  LET rest(sid, reqs) ==
        LET u == lyricsFromID(sid)
            r == getjSON(u, b)
            reqs2 == Append(reqs, JsonReq(u, r))
        IN IF response \notin Response THEN Done(Raise("AssertionError"), reqs)
           ELSE IF ~r.ok THEN Done(Raise(r.err), reqs2)
           ELSE IF response = "raw" THEN Done(Ok(r.value), reqs2)
           ELSE Done(Ok([lyrics |-> Get(r.value, "lyrics"),
                              lyrics_copyright |-> Get(r.value, "lyrics_copyright"),
                              snippet |-> Get(r.value, "snippet")]), reqs2)
      t == getText(url, b)
      treq == <<TextReq(url, <<"bitrate", "320">>, t)>>
  IN IF ~(Truthy(url) \/ Truthy(id)) THEN Done(Raise("ValidationError"), <<>>)
     ELSE IF ~Truthy(url) THEN rest(id, <<>>)
     ELSE IF ~isSongUrl(url) THEN Done(Raise("InvalidURL"), <<>>)
     ELSE IF ~t.ok THEN Done(Raise(t.err), treq)
     ELSE IF ~getSongId(t.value).ok THEN Done(Raise(getSongId(t.value).err), treq)
     ELSE rest(getSongId(t.value).value, treq)

lyrics(url, id, response, b) ==
  LET rest(sid, reqs) ==
        LET u == lyricsFromID(sid)
            r == getjSON(u, b)
            reqs2 == Append(reqs, JsonReq(u, r))
        IN IF response \notin Response THEN Done(Raise("AssertionError"), reqs)
           ELSE IF ~r.ok THEN Done(Raise(r.err), reqs2)
           ELSE IF response = "raw" THEN Done(Ok(r.value), reqs2)
           ELSE IF Get(r.value, "status") = "failure"
                THEN Done(Ok([status |-> "no lyric"]), reqs2)
                ELSE Done(Ok([lyrics |-> Get(r.value, "lyrics"),
                              lyrics_copyright |-> Get(r.value, "lyrics_copyright"),
                              snippet |-> Get(r.value, "snippet")]), reqs2)
      t == getText(url, b)
      treq == <<TextReq(url, <<"bitrate", "320">>, t)>>
  IN IF ~(Truthy(url) \/ Truthy(id)) THEN Done(Raise("ValidationError"), <<>>)
     ELSE IF ~Truthy(url) THEN rest(id, <<>>)
     ELSE IF ~isSongUrl(url) THEN Done(Raise("InvalidURL"), <<>>)
     ELSE IF ~t.ok THEN Done(Raise(t.err), treq)
     ELSE IF ~getSongId(t.value).ok THEN Done(Raise(getSongId(t.value).err), treq)
     ELSE rest(getSongId(t.value).value, treq)

\* ------------------------------------------------------ the state machine
\* The arguments of a call, with the parameters a function lacks left at None.
Args(fn, url, id, lyr, response, query, page, limit) ==
  [fn |-> fn, url |-> url, id |-> id, lyrics |-> lyr, response |-> response,
   query |-> query, page |-> page, limit |-> limit]

NoCall == Args("none", None, None, FALSE, None, None, 0, 0)

Init ==
  /\ backend \in Backends
  /\ call = NoCall
  /\ outcome = Raise("none")
  /\ requests = <<>>

\* A call runs to completion (the functions are synchronous and blocking) and
\* leaves its arguments, its outcome and its requests for the caller to see.
Finish(a, d) ==
  /\ call = NoCall
  /\ call' = a
  /\ outcome' = d.out
  /\ requests' = d.reqs
  /\ UNCHANGED backend

CallSearchSong ==
  \E q \in Queries, p \in IntArgs, n \in LimitArgs, m \in Modes :
    Finish(Args("searchSong", None, None, FALSE, m, q, p, n), searchSong(q, p, n, m, backend))

CallSearchAlbum ==
  \E q \in Queries, m \in Modes :
    Finish(Args("searchAlbum", None, None, FALSE, m, q, 0, 0), searchAlbum(q, m, backend))

CallSong ==
  \E u \in Urls, i \in IdArgs, l \in BOOLEAN, m \in Modes :
    Finish(Args("song", u, i, l, m, None, 0, 0), song(u, i, l, m, backend))

CallAlbum ==
  \E u \in Urls, i \in IdArgs, l \in BOOLEAN, m \in Modes :
    Finish(Args("album", u, i, l, m, None, 0, 0), album(u, i, l, m, backend))

CallPlaylist ==
  \E u \in Urls, i \in IdArgs, l \in BOOLEAN, m \in Modes :
    Finish(Args("playlist", u, i, l, m, None, 0, 0), playlist(u, i, l, m, backend))

CallLyrics ==
  \E u \in Urls, i \in IdArgs, m \in Modes :
    Finish(Args("lyrics", u, i, FALSE, m, None, 0, 0), lyrics(u, i, m, backend))

\* The caller has taken the outcome; nothing of the call is left.
Return ==
  /\ call # NoCall
  /\ call' = NoCall
  /\ outcome' = Raise("none")
  /\ requests' = <<>>
  /\ UNCHANGED backend

\* The backend is outside the program: between calls its pages, its data and
\* its availability may change.
BackendChange ==
  /\ call = NoCall
  /\ backend' \in Backends \ {backend}
  /\ UNCHANGED <<call, outcome, requests>>

Next ==
  \/ CallSearchSong
  \/ CallSearchAlbum
  \/ CallSong
  \/ CallAlbum
  \/ CallPlaylist
  \/ CallLyrics
  \/ Return
  \/ BackendChange

Spec == Init /\ [][Next]_vars

TypeOK ==
  /\ backend \in Backends
  /\ call.fn \in {"none", "searchSong", "searchAlbum", "song", "album", "playlist", "lyrics"}
  /\ outcome.ok \in BOOLEAN
  /\ Len(requests) <= 3

\* =================================================================== claims
IdFns == {"song", "album", "playlist", "lyrics"}

RaisedErr(e) == ~outcome.ok /\ outcome.err = e

LastReq == requests[Len(requests)]

\* The validator, the extractor and the builder that belong to a function.
Matches(fn, url) ==
  CASE fn \in {"song", "lyrics"} -> isSongUrl(url)
    [] fn = "album" -> isAlbumUrl(url)
    [] fn = "playlist" -> isPlaylistUrl(url)

Extracted(fn, text) ==
  CASE fn \in {"song", "lyrics"} -> getSongId(text)
    [] fn = "album" -> getAlbumId(text)
    [] fn = "playlist" -> getPlaylistId(text)

Built(fn, id) ==
  CASE fn = "song" -> songFromID(id)
    [] fn = "lyrics" -> lyricsFromID(id)
    [] fn = "album" -> albumFromID(id)
    [] fn = "playlist" -> playlistFromID(id)

\* The last request was a JSON GET and the backend answered it.
JsonAnswered == requests # <<>> /\ LastReq.kind = "json" /\ LastReq.reply.ok

\* C1: a call in raw mode that gets its JSON reply returns exactly that reply,
\* and a raw call returns nothing else: the value returned is the value the
\* backend sent for the last JSON request, whatever the function, the lyrics
\* flag and the content of the reply.
C1_RawIsVerbatim ==
  (call # NoCall /\ call.response = "raw") =>
     /\ JsonAnswered => (outcome.ok /\ outcome.value = LastReq.reply.value)
     /\ outcome.ok => JsonAnswered

C1_Witness ==
  /\ call.fn = "lyrics"
  /\ call.response = "raw"
  /\ outcome.ok
  /\ Get(outcome.value, "status") = "failure"

\* C2 (as claimed): every call whose response is neither "json" nor "raw" fails
\* with ValidationError, whatever the other arguments are.
C2_BadResponseIsValidationError ==
  (call # NoCall /\ call.response \notin {"json", "raw"}) => RaisedErr("ValidationError")

\* C3 (as claimed): the response-mode check comes first: a call whose response
\* is neither "json" nor "raw" fails on the response check (not on the url/id
\* presence check nor on the URL shape check) and has issued no request.
C3_ResponseCheckedFirst ==
  (/\ call # NoCall
   /\ call.response \notin {"json", "raw"}
   /\ call.fn = "searchSong" => (call.page >= 1 /\ call.limit \in 1..29))
  => (requests = <<>> /\ RaisedErr("AssertionError"))

C5_NeitherUrlNorId ==
  (call.fn \in IdFns /\ call.url \in {None, Empty} /\ call.id \in {None, Empty})
  => (RaisedErr("ValidationError") /\ requests = <<>>)

C5_Witness ==
  /\ call.fn = "playlist"
  /\ call.url = Empty
  /\ call.id = Empty
  /\ RaisedErr("ValidationError")

\* C6: song, album, playlist and lyrics called with a url their validator
\* rejects fail with InvalidURL and issue no request, also when an id is given
\* with the url.
C6_RejectedUrl ==
  (call.fn \in IdFns /\ call.url \notin {None, Empty} /\ ~Matches(call.fn, call.url))
  => (RaisedErr("InvalidURL") /\ requests = <<>>)

C6_Witness ==
  /\ call.fn = "album"
  /\ call.url = BadUrl
  /\ call.id = "a"
  /\ RaisedErr("InvalidURL")

\* C7: lyrics in json mode, answered by the backend with status "failure",
\* returns the dictionary {"status": "no lyric"} and raises nothing.
C7_NoLyric ==
  (/\ call.fn = "lyrics"
   /\ call.response = "json"
   /\ JsonAnswered
   /\ Get(LastReq.reply.value, "status") = "failure")
  => outcome = Ok([status |-> "no lyric"])

C7_Witness ==
  /\ call.fn = "lyrics"
  /\ call.response = "json"
  /\ JsonAnswered
  /\ LastReq.reply.value = [status |-> "failure"]
  /\ outcome = Ok([status |-> "no lyric"])

\* The number of requests of one kind in the log.
Count(kind) == Cardinality({i \in 1..Len(requests) : requests[i].kind = kind})

\* C9: the requests of a raw call of song, album, playlist or lyrics.  With an
\* id and no url: one JSON GET and nothing else.  With a valid url: one page
\* GET first; if it fails, or the page lacks the id, that error is the outcome
\* and no JSON GET follows; otherwise exactly one JSON GET follows.  No request
\* is issued twice.
C9_RawRequestSequence ==
  (call.fn \in IdFns /\ call.response = "raw") =>
     /\ Count("text") <= 1 /\ Count("json") <= 1
     /\ (call.url \in {None, Empty} /\ call.id \notin {None, Empty})
          => (Len(requests) = 1 /\ requests[1].kind = "json")
     /\ (call.url \notin {None, Empty} /\ Matches(call.fn, call.url))
          => /\ requests # <<>>
             /\ requests[1].kind = "text"
             /\ requests[1].url = call.url
             /\ IF ~requests[1].reply.ok
                THEN Len(requests) = 1 /\ RaisedErr(requests[1].reply.err)
                ELSE IF ~Extracted(call.fn, requests[1].reply.value).ok
                THEN Len(requests) = 1 /\ RaisedErr("ExtractionError")
                ELSE Len(requests) = 2 /\ requests[2].kind = "json"

C9_Witness ==
  /\ call.fn = "playlist"
  /\ call.response = "raw"
  /\ call.url = PlaylistUrl
  /\ call.id = "b"
  /\ Len(requests) = 1
  /\ requests[1].kind = "text"
  /\ requests[1].reply.ok
  /\ RaisedErr("ExtractionError")

\* C10: with a valid url and an id, the JSON request is built from the id found
\* in the fetched page, and song in json mode returns the record of that id.
C10_ExtractedIdWins ==
  (/\ call.fn \in IdFns
   /\ call.url \notin {None, Empty}
   /\ call.id \notin {None, Empty}
   /\ Matches(call.fn, call.url)
   /\ Len(requests) >= 2)
  => /\ requests[1].kind = "text"
     /\ requests[2].kind = "json"
     /\ requests[2].url = Built(call.fn, Extracted(call.fn, requests[1].reply.value).value)
     /\ (call.fn = "song" /\ call.response = "json" /\ outcome.ok)
          => outcome.value.id = Extracted(call.fn, requests[1].reply.value).value

C10_Witness ==
  /\ call.fn = "song"
  /\ call.url = SongUrl
  /\ call.id = "b"
  /\ call.response = "json"
  /\ Len(requests) >= 2
  /\ requests[2].url = songFromID("a")
  /\ outcome.ok
  /\ "b" \in DOMAIN requests[2].reply.value
  /\ outcome.value.id = "a"

====
